---- MODULE Spec2Model ----
(***************************************************************************)
(* Model of OmniAPI.run_query_blocking and OmniAPI.wait_query_blocking     *)
(* (src/omni_python_sdk/api.py).  One call of run_query_blocking is        *)
(* followed from the POST to /query/run, through the poll loop on          *)
(* /query/wait, to the decoding of the result.  The remote service is the  *)
(* environment: every HTTP response is chosen from Responses.              *)
(*                                                                         *)
(* A JSON object (a Python dict) is a TLA+ function whose DOMAIN is the    *)
(* set of keys that are present, so that d['k'] on a missing key is a      *)
(* KeyError that the model has to take, not a default value.               *)
(***************************************************************************)
EXTENDS Integers, Sequences, FiniteSets, TLC

\* Bounds of the model.
MaxPolls == 2      \* wait requests followed in one call
MaxRecords == 3    \* records in one NDJSON response body
MaxUsers == 2      \* users in the Resources of one lookup response

Has(d, k) == k \in DOMAIN d

Last(s) == s[Len(s)]

(***************************************************************************)
(* The remote service's answers.                                           *)
(***************************************************************************)
StatusCodes == {200, 201, 304, 404, 500}

\* The base64 text of a result (well padded, so base64.b64decode accepts
\* it): whether the decoded bytes are an Arrow IPC stream, and the schema
\* of that stream.
PayloadA == [stream |-> "ok", schema |-> <<"a">>]
PayloadAB == [stream |-> "ok", schema |-> <<"a", "b">>]
PayloadNotArrow == [stream |-> "bad", schema |-> <<>>]

\* Records that are not the footer.
DataRecords ==
    { [result |-> PayloadAB, summary |-> [fields |-> <<"f1", "f2">>]],
      [result |-> PayloadA,  summary |-> [fields |-> <<"f2", "f1">>]],
      [result |-> PayloadNotArrow, summary |-> [fields |-> <<"f1">>]],
      [jobs_submitted |-> "j1"] }

\* Last records: done (without and with an empty list of handles), not
\* done with handles, timed_out neither "true" nor "false" and no handles,
\* timed_out omitted.
Footers ==
    { [timed_out |-> "false"],
      [timed_out |-> "false", remaining_job_ids |-> <<>>],
      [timed_out |-> "true", remaining_job_ids |-> <<"j1">>],
      [timed_out |-> "true", remaining_job_ids |-> <<"j2">>],
      [timed_out |-> "pending"],
      [remaining_job_ids |-> <<"j1">>] }

\* ndjson.loads(response.text): the empty text, or data records and a footer.
Bodies ==
    {<<>>} \cup
    UNION { { Append(d, f) : d \in [1..n -> DataRecords], f \in Footers }
            : n \in 0..(MaxRecords - 1) }

\* A non-200 response's text is never read.
Responses ==
    { [status |-> 200, body |-> b] : b \in Bodies } \cup
    { [status |-> s, body |-> <<>>] : s \in StatusCodes \ {200} }

NoResponse == [status |-> 0, body |-> <<>>]
NoFooter == [absent |-> "footer"]
NoRecord == [absent |-> "record"]

(***************************************************************************)
(* How a call ends.                                                        *)
(***************************************************************************)
NoTable == [columns |-> <<>>]

Running == [kind |-> "running", exc |-> "", table |-> NoTable, fields |-> <<>>]

Raise(e) == [kind |-> "raised", exc |-> e, table |-> NoTable, fields |-> <<>>]

\* Falling off the end of the function: Python returns None.
ReturnNone == [kind |-> "returned_none", exc |-> "", table |-> NoTable, fields |-> <<>>]

Return(t, f) == [kind |-> "returned", exc |-> "", table |-> t, fields |-> f]

VARIABLES
    pc,             \* "start", "loop" (line 82, not done), "decode" (line 84), "end"
    response_json,  \* the local response_json of run_query_blocking
    footer,         \* the local footer of run_query_blocking
    done,           \* the local done of run_query_blocking
    outcome,        \* how the call ended
    waitLog,        \* job_ids of every GET /query/wait sent, in order
    footLog,        \* last record of every response received, in order
    lastResp,       \* the response received last
    stalePair,      \* the pair that the response before lastResp held, if any
    upc,            \* upsert_user: "idle", "start", "update", "create", "end"
    args,           \* upsert_user: email, displayName, attributes
    upsert_body,    \* upsert_user: the local body
    lookup,         \* upsert_user: the response of find_user_by_email
    sent,           \* upsert_user: every HTTP request sent, in order
    printed         \* upsert_user: what the call printed, or the error it raised

queryVars == <<pc, response_json, footer, done, outcome, waitLog, footLog, lastResp, stalePair>>

upsertVars == <<upc, args, upsert_body, lookup, sent, printed>>

vars == <<pc, response_json, footer, done, outcome, waitLog, footLog, lastResp, stalePair,
          upc, args, upsert_body, lookup, sent, printed>>

(***************************************************************************)
(* Helpers of the two methods.                                             *)
(***************************************************************************)
\* response.raise_for_status(): TRUE when it raises HTTPError.
RaiseForStatus(status) == 400 <= status /\ status < 600

\* a loop that polls once before it tests done
RunDone_Never(f) == FALSE

\* line 81
RunDone(f) == f.timed_out = "false"

\* done tested as "not timed out" instead of as the string "false"
WaitDone_NotTrue(f) == f.timed_out # "true"

\* line 58
WaitDone(f) == f.timed_out = "false"

\* next((p for p in response_json if "result" in p), None): index, 0 for None
RECURSIVE ScanFrom(_, _)
ScanFrom(s, i) ==
    IF i > Len(s) THEN 0
    ELSE IF Has(s[i], "result") THEN i
    ELSE ScanFrom(s, i + 1)

\* the last record with a result instead of the first
NextWithResult_Last(s) ==
    IF \E i \in 1..Len(s) : Has(s[i], "result")
    THEN CHOOSE i \in 1..Len(s) :
            /\ Has(s[i], "result")
            /\ \A j \in (i + 1)..Len(s) : ~Has(s[j], "result")
    ELSE 0

NextWithResult(s) == ScanFrom(s, 1)

\* ipc.open_stream(buffer): TRUE when it raises ArrowInvalid
OpenStreamRaises(p) == p.stream # "ok"

\* only the first record batch column is read
ReadAll_FirstColumn(p) == [columns |-> SubSeq(p.schema, 1, 1)]

\* reader.read_all(): the table of the stream
ReadAll(p) == [columns |-> p.schema]

\* None returned when no record has a result
DecodeResponse_Silent(json) ==
    LET i == NextWithResult(json) IN
    IF i # 0
    THEN LET data_payload == json[i] IN
         IF OpenStreamRaises(data_payload.result) THEN Raise("ArrowInvalid")
         ELSE IF ~Has(data_payload, "summary") THEN Raise("KeyError")
         ELSE Return(ReadAll(data_payload.result), data_payload.summary.fields)
    ELSE ReturnNone

\* lines 84-94
DecodeResponse(json) ==
    LET i == NextWithResult(json) IN
    IF i # 0
    THEN LET data_payload == json[i] IN
         IF OpenStreamRaises(data_payload.result) THEN Raise("ArrowInvalid")
         ELSE IF ~Has(data_payload, "summary") THEN Raise("KeyError")
         ELSE Return(ReadAll(data_payload.result), data_payload.summary.fields)
    ELSE Raise("ValueError")

\* lines 54-61: what wait_query_blocking does with the response to its GET
WaitQueryBlocking(resp) ==
    IF resp.status = 200
    THEN IF resp.body = <<>>
         THEN [kind |-> "raise", exc |-> "IndexError", json |-> <<>>, done |-> FALSE]
         ELSE IF ~Has(Last(resp.body), "timed_out")
         THEN [kind |-> "raise", exc |-> "KeyError", json |-> <<>>, done |-> FALSE]
         ELSE [kind |-> "ok", exc |-> "", json |-> resp.body,
               done |-> WaitDone(Last(resp.body))]
    ELSE IF RaiseForStatus(resp.status)
         THEN [kind |-> "raise", exc |-> "HTTPError", json |-> <<>>, done |-> FALSE]
         ELSE [kind |-> "none", exc |-> "", json |-> <<>>, done |-> FALSE]

\* what the logs keep of a response
FooterOf(resp) ==
    IF resp.status = 200 /\ resp.body # <<>> THEN Last(resp.body) ELSE NoFooter

FirstResultOf(resp) ==
    IF \E i \in 1..Len(resp.body) : Has(resp.body[i], "result")
    THEN resp.body[CHOOSE i \in 1..Len(resp.body) :
                      /\ Has(resp.body[i], "result")
                      /\ \A j \in 1..(i - 1) : ~Has(resp.body[j], "result")]
    ELSE NoRecord

\* the (table, fields) pair held by the first result record of a response,
\* Running when that record is missing, is no Arrow stream or has no summary
PairOf(resp) ==
    LET r == FirstResultOf(resp) IN
    IF Has(r, "result") /\ Has(r, "summary") /\ r.result.stream = "ok"
    THEN Return([columns |-> r.result.schema], r.summary.fields)
    ELSE Running

(***************************************************************************)
(* upsert_user (lines 400-435) with find_user_by_email, update_user,       *)
(* create_user and listify.  A string is the sequence of its characters.   *)
(***************************************************************************)
Emails == {"ann@x.io", "bob@x.io"}

DisplayNames == {"Ann"}

AttributeValues ==
    { <<"a">>,
      <<"[", "a", "]">>,
      <<"[", "a", ",", "b", "]">>,
      <<"[", "a">> }

\* the attributes argument: one user attribute
Attributes == { [team |-> v] : v \in AttributeValues }

\* users of a SCIM list response; every SCIM resource carries an id
Users == { [id |-> "u1"], [id |-> "u2"] }

\* response.json() of the lookup, with Resources and without
LookupBodies ==
    { [Resources |-> u] : u \in UNION { [1..n -> Users] : n \in 0..MaxUsers } }
    \cup { [totalResults |-> 0] }

LookupResponses ==
    { [status |-> 200, json |-> b] : b \in LookupBodies } \cup
    { [status |-> st, json |-> [totalResults |-> 0]] : st \in StatusCodes \ {200} }

NoArgs == [email |-> "", displayName |-> "", attributes |-> [team |-> <<>>]]
NoBody == [UserAttribute |-> [team |-> [kind |-> "str", items |-> <<>>]],
           userName |-> "", displayName |-> ""]
NoLookup == [status |-> 0, json |-> [totalResults |-> 0]]

\* v.replace('[','').replace(']','')
RemoveBrackets(v) == SelectSeq(v, LAMBDA c : c \notin {"[", "]"})

\* v.split(',')
RECURSIVE SplitComma(_)
SplitComma(v) ==
    IF \E i \in 1..Len(v) : v[i] = ","
    THEN LET i == CHOOSE k \in 1..Len(v) :
                     v[k] = "," /\ \A j \in 1..(k - 1) : v[j] # ","
         IN <<SubSeq(v, 1, i - 1)>> \o SplitComma(SubSeq(v, i + 1, Len(v)))
    ELSE <<v>>

Contains(v, c) == \E i \in 1..Len(v) : v[i] = c

\* lines 552-566: a value is kept as a string or turned into a list
Listify(d) ==
    [k \in DOMAIN d |->
        IF Contains(d[k], "[") /\ Contains(d[k], "]")
        THEN [kind |-> "list", items |-> SplitComma(RemoveBrackets(d[k]))]
        ELSE [kind |-> "str", items |-> <<d[k]>>]]

\* update on any match instead of on exactly one
UpsertBranch_AnyMatch(resp) ==
    IF resp.status = 200
    THEN IF ~Has(resp.json, "Resources") THEN "KeyError"
         ELSE IF Len(resp.json.Resources) >= 1 THEN "update"
         ELSE IF Len(resp.json.Resources) = 0 THEN "create"
         ELSE "none"
    ELSE "skip"

\* lines 416-418, 426, 434: what upsert_user does after the lookup
UpsertBranch(resp) ==
    IF resp.status = 200
    THEN IF ~Has(resp.json, "Resources") THEN "KeyError"
         ELSE IF Len(resp.json.Resources) = 1 THEN "update"
         ELSE IF Len(resp.json.Resources) = 0 THEN "create"
         ELSE IF Len(resp.json.Resources) > 1 THEN "none"
         ELSE "skip"
    ELSE "skip"

\* a call of upsert_user with its arguments
InitUpsert ==
    /\ pc = "start"
    /\ response_json = <<>>
    /\ footer = NoFooter
    /\ done = FALSE
    /\ outcome = Running
    /\ waitLog = <<>>
    /\ footLog = <<>>
    /\ lastResp = NoResponse
    /\ stalePair = Running
    /\ upc = "start"
    /\ args \in [email : Emails, displayName : DisplayNames, attributes : Attributes]
    /\ upsert_body = NoBody
    /\ lookup = NoLookup
    /\ sent = <<>>
    /\ printed = ""

\* lines 412-418, 426 and 434-435 with find_user_by_email (lines 392-398)
UpsertLookup ==
    /\ upc = "start"
    /\ \E resp \in LookupResponses :
        /\ upsert_body' = [NoBody EXCEPT !.UserAttribute = Listify(args.attributes)]
        /\ sent' = Append(sent, [method |-> "GET", target |-> args.email,
                                 json |-> NoBody])
        /\ lookup' = resp
        /\ upc' = CASE UpsertBranch(resp) = "update" -> "update"
                    [] UpsertBranch(resp) = "create" -> "create"
                    [] OTHER -> "end"
        /\ printed' = CASE UpsertBranch(resp) = "none" -> "no action taken"
                        [] UpsertBranch(resp) = "KeyError" -> "KeyError"
                        [] OTHER -> ""
    /\ UNCHANGED args
    /\ UNCHANGED queryVars

\* lines 419-425 with update_user (lines 374-380)
UpsertUpdate ==
    /\ upc = "update"
    /\ \E st \in StatusCodes :
        LET user == lookup.json.Resources[1]
            b == [upsert_body EXCEPT !.userName = args.email,
                                     !.displayName = args.displayName]
        IN /\ upsert_body' = b
           /\ sent' = Append(sent, [method |-> "PUT", target |-> user.id, json |-> b])
           /\ printed' = IF st = 200 THEN "updated user id" ELSE "Error updating user id"
    /\ upc' = "end"
    /\ UNCHANGED <<args, lookup>>
    /\ UNCHANGED queryVars

\* lines 427-432 with create_user (lines 355-361)
UpsertCreate ==
    /\ upc = "create"
    /\ \E st \in StatusCodes :
        LET b == [upsert_body EXCEPT !.userName = args.email,
                                     !.displayName = args.displayName]
        IN /\ upsert_body' = b
           /\ sent' = Append(sent, [method |-> "POST", target |-> "users", json |-> b])
           /\ printed' = IF st = 201 THEN "Created" ELSE "Error creating"
    /\ upc' = "end"
    /\ UNCHANGED <<args, lookup>>
    /\ UNCHANGED queryVars

NextUpsert == UpsertLookup \/ UpsertUpdate \/ UpsertCreate

SpecUpsert == InitUpsert /\ [][NextUpsert]_vars

Init ==
    /\ pc = "start"
    /\ response_json = <<>>
    /\ footer = NoFooter
    /\ done = FALSE
    /\ outcome = Running
    /\ waitLog = <<>>
    /\ footLog = <<>>
    /\ lastResp = NoResponse
    /\ stalePair = Running
    /\ upc = "idle"
    /\ args = NoArgs
    /\ upsert_body = NoBody
    /\ lookup = NoLookup
    /\ sent = <<>>
    /\ printed = ""

\* lines 74-81 and 95-96: the POST to /query/run and its response
RunQuery ==
    /\ pc = "start"
    /\ \E resp \in Responses :
        /\ lastResp' = resp
        /\ footLog' = Append(footLog, FooterOf(resp))
        /\ UNCHANGED <<waitLog, stalePair>>
        /\ UNCHANGED upsertVars
        /\ IF resp.status = 200
           THEN IF resp.body = <<>>
                THEN /\ pc' = "end"
                     /\ outcome' = Raise("IndexError")
                     /\ response_json' = resp.body
                     /\ UNCHANGED <<footer, done>>
                ELSE IF ~Has(Last(resp.body), "timed_out")
                THEN /\ pc' = "end"
                     /\ outcome' = Raise("KeyError")
                     /\ response_json' = resp.body
                     /\ footer' = Last(resp.body)
                     /\ UNCHANGED done
                ELSE /\ response_json' = resp.body
                     /\ footer' = Last(resp.body)
                     /\ done' = RunDone(Last(resp.body))
                     /\ pc' = IF RunDone(Last(resp.body)) THEN "decode" ELSE "loop"
                     /\ UNCHANGED outcome
           ELSE /\ pc' = "end"
                /\ outcome' = IF RaiseForStatus(resp.status)
                              THEN Raise("HTTPError") ELSE ReturnNone
                /\ UNCHANGED <<response_json, footer, done>>

\* the handles of the latest footer, when it has any
PollJobIds_Latest(first, latest) ==
    IF Has(latest, "remaining_job_ids") THEN latest.remaining_job_ids
    ELSE first.remaining_job_ids

\* the job_ids argument of line 83
PollJobIds(first, latest) == first.remaining_job_ids

\* lines 82-83: one iteration of the poll loop
WaitQuery ==
    /\ pc = "loop"
    /\ ~done
    /\ Len(waitLog) < MaxPolls
    /\ UNCHANGED upsertVars
    /\ IF ~Has(footer, "remaining_job_ids")
       THEN /\ pc' = "end"
            /\ outcome' = Raise("KeyError")
            /\ UNCHANGED <<response_json, footer, done, waitLog, footLog,
                           lastResp, stalePair>>
       ELSE \E resp \in Responses :
            LET r == WaitQueryBlocking(resp) IN
            /\ waitLog' = Append(waitLog, PollJobIds(footer, Last(footLog)))
            /\ footLog' = Append(footLog, FooterOf(resp))
            /\ lastResp' = resp
            /\ stalePair' = PairOf(lastResp)
            /\ UNCHANGED footer
            /\ IF r.kind = "ok"
               THEN /\ response_json' = r.json
                    /\ done' = r.done
                    /\ pc' = IF r.done THEN "decode" ELSE "loop"
                    /\ UNCHANGED outcome
               ELSE /\ pc' = "end"
                    /\ outcome' = IF r.kind = "raise" THEN Raise(r.exc)
                                  ELSE Raise("TypeError")
                    /\ UNCHANGED <<response_json, done>>

\* lines 84-94
Decode ==
    /\ pc = "decode"
    /\ pc' = "end"
    /\ outcome' = DecodeResponse(response_json)
    /\ UNCHANGED upsertVars
    /\ UNCHANGED <<response_json, footer, done, waitLog, footLog, lastResp, stalePair>>

Next == RunQuery \/ WaitQuery \/ Decode

Spec == Init /\ [][Next]_vars

(***************************************************************************)
(* Vocabulary of the properties, over what the remote service sent and     *)
(* what it was asked.                                                      *)
(***************************************************************************)
FooterDone(f) == Has(f, "timed_out") /\ f.timed_out = "false"

\* a footer that carries timed_out with a value other than "false"
FooterPending(f) == Has(f, "timed_out") /\ f.timed_out # "false"

\* a last record that is not a done footer, timed_out omitted included
FooterNotDone(f) == f # NoFooter /\ ~FooterDone(f)

ResultIndexes(body) == { i \in 1..Len(body) : Has(body[i], "result") }

Completed == lastResp.status = 200 /\ footLog # <<>> /\ FooterDone(Last(footLog))

\* C1: whenever run_query_blocking has left the poll loop and is at the
\* decoding, the last record of the response received last has
\* timed_out = "false".
C1_LoopExitsOnFalse ==
    pc = "decode" => /\ lastResp.status = 200
                     /\ lastResp.body # <<>>
                     /\ FooterDone(Last(lastResp.body))

C1_Witness ==
    /\ pc = "decode"
    /\ Len(waitLog) = 2
    /\ footLog[2] = [timed_out |-> "pending"]

\* C2: when the /query/run response is a 200 whose footer has
\* timed_out = "false", no request is sent to /query/wait and the call is
\* never in the poll loop.
C2_NoPollWhenComplete ==
    (footLog # <<>> /\ FooterDone(footLog[1])) => (waitLog = <<>> /\ pc # "loop")

C2_Witness ==
    /\ pc = "end"
    /\ outcome.kind = "returned"
    /\ footLog = << [timed_out |-> "false", remaining_job_ids |-> <<>>] >>
    /\ waitLog = <<>>

C4_PollsLatestFooterIds ==
    \A k \in 1..Len(waitLog) :
        Has(footLog[k], "remaining_job_ids") => waitLog[k] = footLog[k].remaining_job_ids

\* C5: after a 200 response whose last record is not a footer with
\* timed_out = "false" (timed_out omitted included), the call is in the
\* poll loop, about to send another wait request, having neither raised
\* nor returned.
C5_NotFalseMeansPollAgain ==
    (/\ lastResp.status = 200
     /\ footLog # <<>>
     /\ FooterNotDone(Last(footLog)))
    => (pc = "loop" /\ outcome = Running)

\* C6: after a response whose status is outside 200..299, from /query/run
\* or from /query/wait, the call has ended and it has ended by raising the
\* HTTP error.
C6_Non2xxRaisesHTTPError ==
    (lastResp # NoResponse /\ lastResp.status \notin 200..299)
    => (pc = "end" /\ outcome = Raise("HTTPError"))

\* C7: when the response received last is complete (200, footer with
\* timed_out = "false") and none of its records has a result key, the call
\* ends by raising ValueError, after no poll or after some.
C7_NoResultRaisesValueError ==
    (pc = "end" /\ Completed /\ ResultIndexes(lastResp.body) = {})
    => outcome = Raise("ValueError")

C7_Witness ==
    /\ pc = "end"
    /\ Completed
    /\ ResultIndexes(lastResp.body) = {}
    /\ Len(waitLog) = 2
    /\ stalePair.kind = "returned"
    /\ outcome = Raise("ValueError")

\* C8: a call that has ended has either returned a (table, fields) pair or
\* raised an error, whatever the status codes of the responses were.
C8_EndsByPairOrError ==
    pc = "end" => outcome.kind \in {"returned", "raised"}

\* C9 as stated: when the response received last is complete and exactly
\* one of its records has a result, which is an Arrow stream, and that
\* record has N descriptors in summary.fields, the call returns a table of
\* N columns and the N descriptors in their order.
C9_ColumnCountIsFieldCount ==
    (/\ pc = "end"
     /\ Completed
     /\ Cardinality(ResultIndexes(lastResp.body)) = 1
     /\ \A i \in ResultIndexes(lastResp.body) :
           /\ lastResp.body[i].result.stream = "ok"
           /\ Has(lastResp.body[i], "summary"))
    => \A i \in ResultIndexes(lastResp.body) :
          /\ outcome.kind = "returned"
          /\ Len(outcome.table.columns) = Len(lastResp.body[i].summary.fields)
          /\ outcome.fields = lastResp.body[i].summary.fields

\* C9 as amended: under the same conditions the call returns the table of
\* the payload, whose columns are the columns of the payload's schema
\* whatever N is, and summary.fields unchanged: N descriptors in their order.
C9_TableOfPayloadAndFields ==
    (/\ pc = "end"
     /\ Completed
     /\ Cardinality(ResultIndexes(lastResp.body)) = 1
     /\ \A i \in ResultIndexes(lastResp.body) :
           /\ lastResp.body[i].result.stream = "ok"
           /\ Has(lastResp.body[i], "summary"))
    => \A i \in ResultIndexes(lastResp.body) :
          /\ outcome.kind = "returned"
          /\ outcome.table.columns = lastResp.body[i].result.schema
          /\ outcome.fields = lastResp.body[i].summary.fields

C9_Witness ==
    /\ pc = "end"
    /\ Completed
    /\ Len(waitLog) = 1
    /\ lastResp.body = << [jobs_submitted |-> "j1"],
                          [result |-> PayloadAB, summary |-> [fields |-> <<"f1", "f2">>]],
                          [timed_out |-> "false"] >>
    /\ outcome = Return([columns |-> <<"a", "b">>], <<"f1", "f2">>)

\* C10: a returned pair is the table of the first record with a result key
\* in the response received last and summary.fields of that same record;
\* it does not depend on any earlier response nor on the later records.
C10_FirstResultOfFinalResponse ==
    (pc = "end" /\ outcome.kind = "returned")
    => /\ Completed
       /\ ResultIndexes(lastResp.body) # {}
       /\ LET r == FirstResultOf(lastResp) IN
          /\ Has(r, "summary")
          /\ outcome.table = [columns |-> r.result.schema]
          /\ outcome.fields = r.summary.fields

C10_Witness ==
    /\ pc = "end"
    /\ outcome.kind = "returned"
    /\ Len(waitLog) >= 1
    /\ stalePair.kind = "returned"
    /\ stalePair # outcome
    /\ Cardinality(ResultIndexes(lastResp.body)) = 2
    /\ lastResp.body[1] # lastResp.body[2]
    /\ Has(lastResp.body[2], "summary")
    /\ lastResp.body[2].result.stream = "ok"

\* every response so far was a 200 whose last record is not a footer with
\* timed_out = "false"
AllNotDone ==
    /\ footLog # <<>>
    /\ lastResp.status = 200
    /\ \A k \in 1..Len(footLog) : FooterNotDone(footLog[k])

\* the same, every footer carrying timed_out and the first one its handles
AllPending ==
    /\ AllNotDone
    /\ \A k \in 1..Len(footLog) : FooterPending(footLog[k])
    /\ Has(footLog[1], "remaining_job_ids")

\* C11: as long as every response is a 200 whose footer has
\* timed_out # "false" the call has not ended and is in the poll loop,
\* about to send the next wait request; it ends only after a footer with
\* timed_out = "false" or a failed request.
C11_PollsUntilRemoteEnds ==
    /\ AllNotDone => (pc = "loop" /\ ~done /\ outcome = Running)
    /\ pc \in {"decode", "end"} => ~AllNotDone

\* The scheduling of the one thread that runs the call: it never stops
\* between two statements.
SpecFair == Spec /\ WF_vars(Next)

\* The part of C11 that the code keeps, for footers that carry timed_out
\* and a first footer that carries remaining_job_ids: the loop has no cap
\* of its own, and the call ends once the remote service has sent a
\* footer with timed_out = "false" or a request has failed.
C11_PendingKeepsPolling ==
    AllPending => (pc = "loop" /\ ~done /\ outcome = Running
                   /\ (Len(waitLog) < MaxPolls => ENABLED WaitQuery))

C11_EndsWhenRemoteEnds ==
    (lastResp # NoResponse /\ ~AllPending) ~> (pc = "end")

Mutating == { i \in 1..Len(sent) : sent[i].method \in {"PUT", "POST"} }

Methods(m) == { i \in 1..Len(sent) : sent[i].method = m }

\* the number of users that the lookup returned: the length of Resources
\* of a 200 response; -1 when there is no such list
Matches ==
    IF lookup.status = 200 /\ Has(lookup.json, "Resources")
    THEN Len(lookup.json.Resources) ELSE -1

\* C12: a call of upsert_user sends at most one mutating request, and only
\* after the lookup, which is its first request; once the call has ended
\* it has sent a PUT exactly when the lookup returned 200 with one user, a
\* POST exactly when it returned 200 with an empty list of users, and no
\* mutating request when it returned several users or another status.
C12_UpsertOneMutationAfterLookup ==
    /\ Cardinality(Mutating) <= 1
    /\ \A i \in Mutating : i = 2 /\ sent[1].method = "GET" /\ lookup # NoLookup
    /\ Methods("PUT") # {} => Matches = 1
    /\ Methods("POST") # {} => Matches = 0
    /\ upc = "end" =>
          /\ Methods("PUT") # {} <=> Matches = 1
          /\ Methods("POST") # {} <=> Matches = 0
          /\ (Matches > 1 \/ lookup.status # 200) => Mutating = {}

C12_Witness ==
    /\ upc = "end"
    /\ Matches = 1
    /\ Len(sent) = 2
    /\ sent[2].method = "PUT"
    /\ sent[2].target = lookup.json.Resources[1].id
    /\ sent[2].json.UserAttribute.team.kind = "list"

====
